---- MODULE Spec2Model ----
(***************************************************************************)
(* A model of the goal evaluation engine of the next-generation trait      *)
(* solver (compiler/rustc_trait_selection/src/solve/mod.rs): the           *)
(* multi-candidate merge and flounder resolver, the certainty lattice it   *)
(* folds with, and the predicate handlers with the nested-goal fixpoint.   *)
(***************************************************************************)
EXTENDS Integers, Sequences, FiniteSets, TLC

VARIABLES
    responses,      \* the candidate responses assembled for one goal
    merge_out,      \* what try_merge_responses returned for them
    flounder_out,   \* what flounder returned for them
    mpc,            \* position of the resolver: "assemble", "merged", "floundered",
                    \* "remerged"
    certs,          \* three certainties x, y, z handed to unify_with
    joins,          \* the joins computed from them
    goal,           \* the goal handed to the dispatcher, with its collaborators' answers
    spc,            \* position of the evaluation: "start", "fixpoint", "respond", "done"
    nested_goals,   \* EvalCtxt::nested_goals, the worklist of staged goals
    base_certainty, \* the certainty the handler passed to the response builder
    step,           \* fixpoint iterations run so far
    goals_certainty,\* what try_evaluate_added_goals returned
    last_certs,     \* the certainties the goals of the last iteration evaluated to
    delegate_log,   \* the operations invoked on the inference delegate, in order
    region_obligations, \* the outlives facts registered on the delegate
    type_variables, \* the delegate's type inference variables: unbound, or
                    \* bound to a type
    result          \* the QueryResult of the goal

resolverVars == <<responses, merge_out, flounder_out, mpc>>

latticeVars == <<certs, joins>>

fixpointVars == <<nested_goals, step, goals_certainty, last_certs>>

delegateVars == <<delegate_log, region_obligations, type_variables>>

solverVars ==
    <<goal, spc, base_certainty, result, fixpointVars, delegateVars>>

vars == <<resolverVars, latticeVars, solverVars>>

\* ------------------------------------------------------------------ bounds

\* Longest list of candidate responses handed to the resolver.
MaxResponses == 3

\* ------------------------------------------------------------- data model

\* Certainty::Yes and Certainty::Maybe(MaybeCause).
Yes == [tag |-> "Yes"]

Maybe(cause) == [tag |-> "Maybe", cause |-> cause]

\* MaybeCause::Ambiguity and MaybeCause::Overflow { suggest_increasing_limit }.
Ambiguity == [kind |-> "Ambiguity"]

Overflow(suggest) == [kind |-> "Overflow", suggest_increasing_limit |-> suggest]

MaybeCause == {Ambiguity} \cup {Overflow(b) : b \in BOOLEAN}

Certainty == {Yes} \cup {Maybe(c) : c \in MaybeCause}

\* Certainty::AMBIGUOUS, the seed of flounder's fold.
AMBIGUOUS == Maybe(Ambiguity)

\* MaybeCause::unify_with: Ambiguity is absorbed by Overflow, and two
\* overflows suggest increasing the limit when either does.
MaybeCause_unify_with(a, b) ==
    IF a = Ambiguity THEN b
    ELSE IF b = Ambiguity THEN a
    ELSE Overflow(a.suggest_increasing_limit \/ b.suggest_increasing_limit)

\* A join that keeps the left cause instead of combining the two.
unify_with_KeepLeft(self, other) ==
    IF self = Yes THEN other ELSE self

\* Certainty::unify_with, the lattice join: Yes is the identity, Maybe absorbs.
unify_with(self, other) ==
    IF self = Yes /\ other = Yes THEN Yes
    ELSE IF self = Yes THEN other
    ELSE IF other = Yes THEN self
    ELSE Maybe(MaybeCause_unify_with(self.cause, other.cause))

\* The canonical variables of the goal being solved; every candidate response
\* for that goal is canonicalized over them.
variables == <<"?X">>

\* A canonical bound variable and a concrete type, as values of var_values.
BoundVar(i) == <<"bound", i>>

TyI32 == <<"ty", "i32">>

\* CanonicalVarValues::make_identity: variable i is mapped to itself.
make_identity(vs) == [i \in 1..Len(vs) |-> BoundVar(i)]

\* CanonicalVarValues::is_identity.
is_identity(var_values) ==
    \A i \in 1..Len(var_values) : var_values[i] = BoundVar(i)

\* The substitutions a candidate may carry: the identity, or ?X := i32.
VarValues == {make_identity(variables), [i \in 1..Len(variables) |-> TyI32]}

\* The region constraints and opaque-type assignments a candidate may carry.
RegionFacts == {<<"T", "'static">>}

OpaqueFacts == {<<"Opaque", "u8">>}

\* ExternalConstraintsData::default().
ExternalConstraintsData_default == [region_constraints |-> {}, opaque_types |-> {}]

ExternalConstraints ==
    [region_constraints : SUBSET RegionFacts, opaque_types : SUBSET OpaqueFacts]

Response ==
    [var_values : VarValues, external_constraints : ExternalConstraints,
     certainty : Certainty]

\* Canonical<Response> for the goal: the response abstracted over `variables`
\* in the goal's input universe, defining no opaque types.
Canonical(value) ==
    [max_universe |-> 0, variables |-> variables, value |-> value,
     defining_opaque_types |-> {}]

CanonicalResponse == {Canonical(v) : v \in Response}

\* Option and QueryResult.
None == [tag |-> "None"]

Some(v) == [tag |-> "Some", value |-> v]

Ok(v) == [tag |-> "Ok", value |-> v]

NoSolution == [tag |-> "Err", error |-> "NoSolution"]

\* bug!(..): the fatal internal error.
Bug(msg) == [tag |-> "Bug", message |-> msg]

\* ---------------------------------------------------------------- helpers

\* A check that forgets the opaque-type constraints.
has_no_inference_or_external_constraints_NoOpaque(self) ==
    /\ self.value.external_constraints.region_constraints = {}
    /\ is_identity(self.value.var_values)

\* CanonicalResponseExt::has_no_inference_or_external_constraints.
has_no_inference_or_external_constraints(self) ==
    /\ self.value.external_constraints.region_constraints = {}
    /\ is_identity(self.value.var_values)
    /\ self.value.external_constraints.opaque_types = {}

\* response_no_constraints_raw.
response_no_constraints_raw(max_universe, vs, certainty) ==
    [max_universe |-> max_universe,
     variables |-> vs,
     value |-> [var_values |-> make_identity(vs),
                external_constraints |-> ExternalConstraintsData_default,
                certainty |-> certainty],
     defining_opaque_types |-> {}]

\* EvalCtxt::make_ambiguous_response_no_constraints.
make_ambiguous_response_no_constraints(maybe_cause) ==
    response_no_constraints_raw(0, variables, Maybe(maybe_cause))

\* ----------------------------------------------- merge and flounder

\* responses.iter().find(pred): the first element satisfying the predicate.
RECURSIVE FindFrom(_, _)
FindFrom(rs, i) ==
    IF i > Len(rs) THEN None
    ELSE IF /\ rs[i].value.certainty = Yes
            /\ has_no_inference_or_external_constraints(rs[i])
         THEN Some(rs[i])
         ELSE FindFrom(rs, i + 1)

\* A merge that takes the first candidate that holds, constrained or not.
try_merge_responses_FirstYes(rs) ==
    IF rs = <<>> THEN None
    ELSE LET one == rs[1]
             yes == {i \in 1..Len(rs) : rs[i].value.certainty = Yes}
         IN
         IF \A i \in 2..Len(rs) : rs[i] = one THEN Some(one)
         ELSE IF yes = {} THEN None
         ELSE Some(rs[CHOOSE i \in yes : \A j \in yes : i <= j])

\* A merge without the all-identical fast path.
try_merge_responses_NoFastPath(rs) ==
    IF rs = <<>> THEN None ELSE FindFrom(rs, 1)

\* EvalCtxt::try_merge_responses.
try_merge_responses(rs) ==
    IF rs = <<>> THEN None
    ELSE LET one == rs[1] IN
         IF \A i \in 2..Len(rs) : rs[i] = one THEN Some(one)
         ELSE FindFrom(rs, 1)

\* A fold that overwrites the accumulator instead of joining into it.
RECURSIVE FoldCertainty_Overwrite(_, _, _)
FoldCertainty_Overwrite(acc, rs, i) ==
    IF i > Len(rs) THEN acc
    ELSE FoldCertainty_Overwrite(rs[i].value.certainty, rs, i + 1)

\* responses.iter().fold(init, |certainty, response| certainty.unify_with(..)).
RECURSIVE FoldCertainty(_, _, _)
FoldCertainty(acc, rs, i) ==
    IF i > Len(rs) THEN acc
    ELSE FoldCertainty(unify_with(acc, rs[i].value.certainty), rs, i + 1)

\* A flounder whose fold starts from Yes instead of AMBIGUOUS.
flounder_SeedYes(rs) ==
    IF rs = <<>> THEN NoSolution
    ELSE LET joined == FoldCertainty(Yes, rs, 1) IN
         IF joined.tag = "Maybe"
         THEN Ok(make_ambiguous_response_no_constraints(joined.cause))
         ELSE Bug("expected flounder response to be ambiguous")

\* EvalCtxt::flounder.
flounder(rs) ==
    IF rs = <<>> THEN NoSolution
    ELSE LET joined == FoldCertainty(AMBIGUOUS, rs, 1) IN
         IF joined.tag = "Maybe"
         THEN Ok(make_ambiguous_response_no_constraints(joined.cause))
         ELSE Bug("expected flounder response to be ambiguous")

\* ------------------------------------------------------------- resolver

NotRun == [tag |-> "NotRun"]

NoCerts == <<>>

InitLattice0 ==
    /\ certs = NoCerts
    /\ joins = NotRun

InitResolver0 ==
    /\ responses = <<>>
    /\ merge_out = NotRun
    /\ flounder_out = NotRun
    /\ mpc = "assemble"

\* A fresh evaluation context: nothing staged, nothing registered.
InitSolver0 ==
    /\ goal = NotRun
    /\ spc = "start"
    /\ nested_goals = <<>>
    /\ base_certainty = NotRun
    /\ step = 0
    /\ goals_certainty = NotRun
    /\ last_certs = <<>>
    /\ delegate_log = <<>>
    /\ region_obligations = {}
    /\ type_variables = <<>>
    /\ result = NotRun

\* The resolver starts with no candidate assembled.
InitMerge ==
    /\ InitResolver0
    /\ InitLattice0
    /\ InitSolver0

\* The candidate assembler hands over one more response for the goal.
AssembleCandidate ==
    /\ mpc = "assemble"
    /\ Len(responses) < MaxResponses
    /\ \E r \in CanonicalResponse : responses' = Append(responses, r)
    /\ UNCHANGED <<merge_out, flounder_out, mpc, latticeVars, solverVars>>

\* The caller tries to merge the candidates it has.
TryMergeResponses ==
    /\ mpc = "assemble"
    /\ merge_out' = try_merge_responses(responses)
    /\ mpc' = "merged"
    /\ UNCHANGED <<responses, flounder_out, latticeVars, solverVars>>

\* The caller flounders, directly or after a merge attempt.
Flounder ==
    /\ mpc \in {"assemble", "merged"}
    /\ flounder_out' = flounder(responses)
    /\ mpc' = "floundered"
    /\ UNCHANGED <<responses, merge_out, latticeVars, solverVars>>

NextMerge ==
    \/ AssembleCandidate
    \/ TryMergeResponses
    \/ Flounder

SpecMerge == InitMerge /\ [][NextMerge]_vars

\* ------------------------------------------- the order of the candidates

\* The candidates whose order is varied: decided or ambiguous, with every
\* combination of constraints.
MergeCandidates ==
    {r \in CanonicalResponse : r.value.certainty \in {Yes, AMBIGUOUS}}

\* The orders n candidates can be assembled in, for every n.
Orders ==
    [n \in 0..MaxResponses |->
        {p \in [1..n -> 1..n] : \A i, j \in 1..n : p[i] = p[j] => i = j}]

\* The candidates in the order p.
RECURSIVE Permute(_, _)
Permute(rs, p) ==
    IF p = <<>> THEN <<>>
    ELSE <<rs[Head(p)]>> \o Permute(rs, Tail(p))

\* The candidate assembler hands over one more of these candidates.
AssembleMergeCandidate ==
    /\ mpc = "assemble"
    /\ Len(responses) < MaxResponses
    /\ \E r \in MergeCandidates : responses' = Append(responses, r)
    /\ UNCHANGED <<merge_out, flounder_out, mpc, latticeVars, solverVars>>

\* The same candidates are assembled in another order and merged again.
Reorder ==
    /\ mpc = "merged"
    /\ \E p \in Orders[Len(responses)] :
        /\ responses' = Permute(responses, p)
        /\ merge_out' = try_merge_responses(responses')
    /\ mpc' = "remerged"
    /\ UNCHANGED <<flounder_out, latticeVars, solverVars>>

NextReorder ==
    \/ AssembleMergeCandidate
    \/ TryMergeResponses
    \/ Reorder

SpecReorder == InitMerge /\ [][NextReorder]_vars

\* -------------------------------------------------------------- lattice

\* Three arbitrary certainties.
InitLattice ==
    /\ InitResolver0
    /\ certs \in Certainty \X Certainty \X Certainty
    /\ joins = NotRun
    /\ InitSolver0

\* The joins the lattice laws speak of, each computed by unify_with.
UnifyWith ==
    /\ joins = NotRun
    /\ LET x == certs[1]
           y == certs[2]
           z == certs[3]
       IN joins' = [tag |-> "Run",
                    xy |-> unify_with(x, y),
                    yx |-> unify_with(y, x),
                    x_yz |-> unify_with(x, unify_with(y, z)),
                    xy_z |-> unify_with(unify_with(x, y), z)]
    /\ UNCHANGED <<certs, resolverVars, solverVars>>

NextLattice == UnifyWith

SpecLattice == InitLattice /\ [][NextLattice]_vars

\* ------------------------------------------------- nested-goal fixpoint

\* Most nested goals a collaborator stages for one goal.
MaxNested == 2

\* Most rounds of inference progress a nested goal needs before it holds.
MaxDec == 8

\* The limit the solver used before the constant: recursion_limit (128) log 2.
RecursionLimitLog2 == 7

\* FIXPOINT_STEP_LIMIT: the fixpoint iterations attempted before overflow.
FIXPOINT_STEP_LIMIT == 8

\* The nested goals of the model, by how their evaluation behaves:
\*   Decreasing(n)  needs n more rounds of progress, then holds (n = 0: holds now);
\*   Fails          is refuted: NoSolution;
\*   Stalled(c)     is Maybe(c) and makes no progress;
\*   Regenerates    is ambiguous and makes progress on every evaluation.
Decreasing(n) == [kind |-> "Decreasing", n |-> n]

Fails == [kind |-> "Fails"]

Stalled(c) == [kind |-> "Stalled", cause |-> c]

Regenerates == [kind |-> "Regenerates"]

NestedGoal ==
    {Decreasing(n) : n \in 0..MaxDec} \cup {Fails, Regenerates}
        \cup {Stalled(c) : c \in MaybeCause}

\* The lists of nested goals a collaborator may stage.
NestedGoals ==
    UNION {[1..k -> NestedGoal] : k \in 0..MaxNested}

\* PredicateKind::AliasRelate(lhs, rhs, direction). Its evaluation proceeds as
\* that of `script`, and when it holds rhs has been bound to `normalizes_to`.
AliasRelate(lhs, rhs, direction, script, normalizes_to) ==
    [kind |-> "AliasRelate", lhs |-> lhs, rhs |-> rhs, direction |-> direction,
     script |-> script, normalizes_to |-> normalizes_to]

\* EvalCtxt::evaluate_goal on a nested goal: whether inference state changed,
\* the certainty (or NoSolution), and the goal as it stands afterwards.
RECURSIVE evaluate_goal(_)
evaluate_goal(g) ==
    CASE g.kind = "AliasRelate" ->
            LET e == evaluate_goal(g.script) IN
            IF e.tag = "Err" THEN e
            ELSE [tag |-> "Ok",
                  has_changed |-> e.has_changed \/ e.certainty = Yes,
                  certainty |-> e.certainty,
                  goal |-> [g EXCEPT !.script = e.goal]]
      [] g.kind = "Fails" ->
            [tag |-> "Err"]
      [] g.kind = "Stalled" ->
            [tag |-> "Ok", has_changed |-> FALSE, certainty |-> Maybe(g.cause),
             goal |-> g]
      [] g.kind = "Regenerates" ->
            [tag |-> "Ok", has_changed |-> TRUE, certainty |-> AMBIGUOUS,
             goal |-> g]
      [] g.kind = "Decreasing" /\ g.n = 0 ->
            [tag |-> "Ok", has_changed |-> FALSE, certainty |-> Yes, goal |-> g]
      [] g.kind = "Decreasing" /\ g.n > 0 ->
            [tag |-> "Ok", has_changed |-> TRUE, certainty |-> AMBIGUOUS,
             goal |-> Decreasing(g.n - 1)]

\* EvalCtxt::evaluate_added_goals_step: evaluate every pending goal in order.
\* A goal that is not Yes is pushed back; the step answers Some(certainty)
\* when no goal changed anything, None when one did, Err on the first
\* NoSolution.
RECURSIVE StepFrom(_, _, _, _, _)
StepFrom(goals, i, pending, unchanged_certainty, seen) ==
    IF i > Len(goals)
    THEN [tag |-> "Ok", unchanged_certainty |-> unchanged_certainty,
          pending |-> pending, certs |-> seen]
    ELSE LET e == evaluate_goal(goals[i]) IN
         IF e.tag = "Err"
         THEN [tag |-> "Err", pending |-> pending, certs |-> seen]
         ELSE LET u1 == IF e.has_changed THEN None ELSE unchanged_certainty
                  isYes == e.certainty = Yes
                  u2 == IF isYes \/ u1 = None THEN u1
                        ELSE Some(unify_with(u1.value, e.certainty))
              IN StepFrom(goals, i + 1,
                          IF isYes THEN pending ELSE Append(pending, e.goal),
                          u2, Append(seen, e.certainty))

evaluate_added_goals_step(goals) ==
    StepFrom(goals, 1, <<>>, Some(Yes), <<>>)

\* Certainty::overflow(suggest_increasing_limit).
overflow(suggest) == Maybe(Overflow(suggest))

\* The inference variables after a pass: the right-hand side of every
\* AliasRelate goal that held is bound.
instantiate(table, goals, goal_certs) ==
    [v \in 1..Len(table) |->
        IF \E i \in 1..Len(goal_certs) :
              /\ goals[i].kind = "AliasRelate"
              /\ goal_certs[i] = Yes
              /\ goals[i].rhs = <<"infer", v>>
        THEN LET i == CHOOSE i \in 1..Len(goal_certs) :
                        /\ goals[i].kind = "AliasRelate"
                        /\ goal_certs[i] = Yes
                        /\ goals[i].rhs = <<"infer", v>>
             IN Some(goals[i].normalizes_to)
        ELSE table[v]]

\* One pass of the loop of EvalCtxt::try_evaluate_added_goals, entered while
\* fewer than FIXPOINT_STEP_LIMIT passes have run.
FixpointStep ==
    /\ spc = "fixpoint"
    /\ step < FIXPOINT_STEP_LIMIT
    /\ LET r == evaluate_added_goals_step(nested_goals) IN
       /\ step' = step + 1
       /\ nested_goals' = r.pending
       /\ last_certs' = r.certs
       /\ type_variables' = instantiate(type_variables, nested_goals, r.certs)
       /\ IF r.tag = "Err"
          THEN /\ goals_certainty' = NoSolution
               /\ spc' = "respond"
          ELSE IF r.unchanged_certainty # None
          THEN /\ goals_certainty' = Ok(r.unchanged_certainty.value)
               /\ spc' = "respond"
          ELSE /\ goals_certainty' = goals_certainty
               /\ spc' = "fixpoint"
    /\ UNCHANGED <<goal, base_certainty, result, delegate_log,
                   region_obligations>>
    /\ UNCHANGED <<resolverVars, latticeVars>>

\* The loop of try_evaluate_added_goals ran out of passes: overflow.
FixpointExhausted ==
    /\ spc = "fixpoint"
    /\ step >= FIXPOINT_STEP_LIMIT
    /\ goals_certainty' = Ok(overflow(FALSE))
    /\ spc' = "respond"
    /\ UNCHANGED <<goal, base_certainty, result, delegateVars>>
    /\ UNCHANGED <<nested_goals, step, last_certs>>
    /\ UNCHANGED <<resolverVars, latticeVars>>

\* The external constraints the response snapshots from the delegate.
compute_external_query_constraints ==
    [region_constraints |-> region_obligations, opaque_types |-> {}]

\* The rest of evaluate_added_goals_and_make_canonical_response: NoSolution of
\* a nested goal is passed on, otherwise the base certainty is joined with the
\* certainty of the goals and the response is canonicalized.
MakeCanonicalResponse ==
    /\ spc = "respond"
    /\ base_certainty # NotRun
    /\ result' =
         IF goals_certainty = NoSolution THEN NoSolution
         ELSE Ok(Canonical(
                [var_values |-> make_identity(variables),
                 external_constraints |-> compute_external_query_constraints,
                 certainty |-> unify_with(base_certainty, goals_certainty.value)]))
    /\ spc' = "done"
    /\ UNCHANGED <<goal, base_certainty, fixpointVars, delegateVars>>
    /\ UNCHANGED <<resolverVars, latticeVars>>

\* The call of evaluate_added_goals_and_make_canonical_response(certainty):
\* the fixpoint over the staged goals starts.
evaluate_added_goals_and_make_canonical_response(certainty) ==
    /\ base_certainty' = certainty
    /\ spc' = "fixpoint"
    /\ UNCHANGED <<step, goals_certainty, last_certs, result>>

\* ------------------------------------------------------------- handlers

\* The terms goals are about.
Types == {"?X", "?Y", "i32", "T"}

Regions == {"'a", "'static"}

Traits == {"Debug", "trait_with_generic_method"}

\* Ty::is_ty_var: an unresolved type inference variable.
is_ty_var(ty) == ty \in {"?X", "?Y"}

\* Interner::is_object_safe: a trait with a method generic over a type
\* parameter is not object safe.
is_object_safe(trait_def_id) == trait_def_id # "trait_with_generic_method"

\* EvalCtxt::add_goals.
add_goals(goals) == nested_goals' = nested_goals \o goals

\* An outlives handler that answers without registering the fact.
compute_type_outlives_goal_NoRegister(ty, lt) ==
    /\ UNCHANGED <<delegateVars, nested_goals>>
    /\ evaluate_added_goals_and_make_canonical_response(Yes)

\* compute_type_outlives_goal.
compute_type_outlives_goal(ty, lt) ==
    /\ delegate_log' = Append(delegate_log, <<"register_ty_outlives", ty, lt>>)
    /\ region_obligations' = region_obligations \cup {<<ty, lt>>}
    /\ UNCHANGED type_variables
    /\ UNCHANGED nested_goals
    /\ evaluate_added_goals_and_make_canonical_response(Yes)

\* compute_region_outlives_goal.
compute_region_outlives_goal(a, b) ==
    /\ delegate_log' = Append(delegate_log, <<"register_region_outlives", a, b>>)
    /\ region_obligations' = region_obligations \cup {<<a, b>>}
    /\ UNCHANGED type_variables
    /\ UNCHANGED nested_goals
    /\ evaluate_added_goals_and_make_canonical_response(Yes)

\* A subtype handler that gives up as soon as either side is a variable.
compute_subtype_goal_EitherVar(a, b, relation) ==
    IF is_ty_var(a) \/ is_ty_var(b)
    THEN /\ UNCHANGED <<delegateVars, nested_goals>>
         /\ evaluate_added_goals_and_make_canonical_response(AMBIGUOUS)
    ELSE /\ delegate_log' = Append(delegate_log, <<"sub", a, b>>)
         /\ UNCHANGED <<region_obligations, type_variables>>
         /\ IF relation.tag = "Err"
            THEN /\ result' = NoSolution
                 /\ spc' = "done"
                 /\ UNCHANGED <<base_certainty, fixpointVars>>
            ELSE /\ add_goals(relation.value)
                 /\ evaluate_added_goals_and_make_canonical_response(Yes)

\* compute_subtype_goal; `relation` is what the delegate's sub answers for
\* (a, b) if asked: Err(NoSolution), or Ok with the goals the relation stages.
compute_subtype_goal(a, b, relation) ==
    IF is_ty_var(a) /\ is_ty_var(b)
    THEN /\ UNCHANGED <<delegateVars, nested_goals>>
         /\ evaluate_added_goals_and_make_canonical_response(AMBIGUOUS)
    ELSE /\ delegate_log' = Append(delegate_log, <<"sub", a, b>>)
         /\ UNCHANGED <<region_obligations, type_variables>>
         /\ IF relation.tag = "Err"
            THEN /\ result' = NoSolution
                 /\ spc' = "done"
                 /\ UNCHANGED <<base_certainty, fixpointVars>>
            ELSE /\ add_goals(relation.value)
                 /\ evaluate_added_goals_and_make_canonical_response(Yes)

\* compute_coerce_goal: rewritten into a subtype goal, a not the expected side.
compute_coerce_goal(a, b, relation) ==
    compute_subtype_goal(a, b, relation)

\* An object-safety handler that answers ambiguity for an unsafe trait.
compute_object_safe_goal_Ambiguous(trait_def_id) ==
    /\ UNCHANGED <<delegateVars, nested_goals>>
    /\ evaluate_added_goals_and_make_canonical_response(
          IF is_object_safe(trait_def_id) THEN Yes ELSE AMBIGUOUS)

\* compute_object_safe_goal.
compute_object_safe_goal(trait_def_id) ==
    IF is_object_safe(trait_def_id)
    THEN /\ UNCHANGED <<delegateVars, nested_goals>>
         /\ evaluate_added_goals_and_make_canonical_response(Yes)
    ELSE /\ result' = NoSolution
         /\ spc' = "done"
         /\ UNCHANGED <<base_certainty, fixpointVars, delegateVars>>

\* A handler that takes an undecidable rule for a rule with no obligations.
compute_well_formed_goal_NoneIsYes(wf) ==
    /\ UNCHANGED delegateVars
    /\ IF wf.tag = "Some"
       THEN /\ add_goals(wf.value)
            /\ evaluate_added_goals_and_make_canonical_response(Yes)
       ELSE /\ UNCHANGED nested_goals
            /\ evaluate_added_goals_and_make_canonical_response(Yes)

\* A well-formedness handler that forgets to stage the derived goals.
compute_well_formed_goal_NoStaging(wf) ==
    /\ UNCHANGED <<delegateVars, nested_goals>>
    /\ evaluate_added_goals_and_make_canonical_response(
          IF wf.tag = "Some" THEN Yes ELSE AMBIGUOUS)

\* compute_well_formed_goal; `wf` is what well_formed_goals answers for the
\* term: None, or Some of the goals derived from its structure.
compute_well_formed_goal(wf) ==
    /\ UNCHANGED delegateVars
    /\ IF wf.tag = "Some"
       THEN /\ add_goals(wf.value)
            /\ evaluate_added_goals_and_make_canonical_response(Yes)
       ELSE /\ UNCHANGED nested_goals
            /\ evaluate_added_goals_and_make_canonical_response(AMBIGUOUS)

\* What the delegate's sub may answer, and what well_formed_goals may answer.
Relations == {NoSolution} \cup {Ok(gs) : gs \in NestedGoals}

WellFormedAnswers == {None} \cup {Some(gs) : gs \in NestedGoals}

\* The dispatcher hands a TypeOutlives goal to its handler.
TypeOutlives ==
    /\ spc = "start"
    /\ \E ty \in Types, lt \in Regions :
        /\ goal' = [kind |-> "TypeOutlives", a |-> ty, b |-> lt, staged |-> <<>>]
        /\ compute_type_outlives_goal(ty, lt)
    /\ UNCHANGED <<resolverVars, latticeVars>>

\* The dispatcher hands a RegionOutlives goal to its handler.
RegionOutlives ==
    /\ spc = "start"
    /\ \E a \in Regions, b \in Regions :
        /\ goal' = [kind |-> "RegionOutlives", a |-> a, b |-> b, staged |-> <<>>]
        /\ compute_region_outlives_goal(a, b)
    /\ UNCHANGED <<resolverVars, latticeVars>>

\* The goals the delegate's answer stages for a subtype goal: none when both
\* sides are unresolved variables (the delegate is not asked) or when it
\* reports inconsistency.
StagedBy(a, b, relation) ==
    IF (a \in {"?X", "?Y"} /\ b \in {"?X", "?Y"}) \/ relation.tag # "Ok"
    THEN <<>>
    ELSE relation.value

\* The dispatcher hands a Subtype goal to its handler.
Subtype ==
    /\ spc = "start"
    /\ \E a \in Types, b \in Types, relation \in Relations :
        /\ goal' = [kind |-> "Subtype", a |-> a, b |-> b, relation |-> relation,
                    staged |-> StagedBy(a, b, relation)]
        /\ compute_subtype_goal(a, b, relation)
    /\ UNCHANGED <<resolverVars, latticeVars>>

\* The dispatcher hands a Coerce goal to its handler.
Coerce ==
    /\ spc = "start"
    /\ \E a \in Types, b \in Types, relation \in Relations :
        /\ goal' = [kind |-> "Coerce", a |-> a, b |-> b, relation |-> relation,
                    staged |-> StagedBy(a, b, relation)]
        /\ compute_coerce_goal(a, b, relation)
    /\ UNCHANGED <<resolverVars, latticeVars>>

\* The dispatcher hands an ObjectSafe goal to its handler.
ObjectSafe ==
    /\ spc = "start"
    /\ \E trait_def_id \in Traits :
        /\ goal' = [kind |-> "ObjectSafe", trait |-> trait_def_id, staged |-> <<>>]
        /\ compute_object_safe_goal(trait_def_id)
    /\ UNCHANGED <<resolverVars, latticeVars>>

\* The dispatcher hands a WellFormed goal to its handler.
WellFormed ==
    /\ spc = "start"
    /\ \E wf \in WellFormedAnswers :
        /\ goal' = [kind |-> "WellFormed", wf |-> wf,
                    staged |-> IF wf.tag = "Some" THEN wf.value ELSE <<>>]
        /\ compute_well_formed_goal(wf)
    /\ UNCHANGED <<resolverVars, latticeVars>>

\* A handler of another module of the solver (trait, projection, alias-relate
\* goals): it stages goals and asks the builder for a response with the
\* certainty it has.
OtherGoal ==
    /\ spc = "start"
    /\ \E gs \in NestedGoals, certainty \in Certainty :
        /\ goal' = [kind |-> "Other", staged |-> gs]
        /\ add_goals(gs)
        /\ UNCHANGED delegateVars
        /\ evaluate_added_goals_and_make_canonical_response(certainty)
    /\ UNCHANGED <<resolverVars, latticeVars>>

\* ------------------------------------------------------ const goals

\* ty::ConstKind, with the two kinds of inference variable told apart.
ConstKind ==
    {"Unevaluated", "Infer", "Placeholder", "Value", "Error", "Param", "Bound",
     "Expr"}

Const ==
    {[kind |-> k, infer |-> "-"] : k \in ConstKind \ {"Infer"}}
        \cup {[kind |-> "Infer", infer |-> v] : v \in {"Var", "EffectVar"}}

\* The types a const argument is checked against.
ConstTypes == {"usize", "bool"}

\* The fatal internal errors of the const handlers end the evaluation.
Fatal(msg) ==
    /\ result' = Bug(msg)
    /\ spc' = "done"
    /\ UNCHANGED <<base_certainty, fixpointVars>>

\* A handler that reports a failed evaluation as NoSolution.
compute_const_evaluatable_goal_FailedIsNoSolution(ct, evaluated) ==
    CASE ct.kind = "Unevaluated" ->
            /\ delegate_log' =
                  Append(delegate_log, <<"try_const_eval_resolve", ct.kind>>)
            /\ UNCHANGED <<region_obligations, type_variables, nested_goals>>
            /\ IF evaluated # None
               THEN evaluate_added_goals_and_make_canonical_response(Yes)
               ELSE /\ result' = NoSolution
                    /\ spc' = "done"
                    /\ UNCHANGED <<base_certainty, step, goals_certainty,
                                   last_certs>>
      [] ct.kind = "Infer" ->
            /\ UNCHANGED <<delegateVars, nested_goals>>
            /\ evaluate_added_goals_and_make_canonical_response(AMBIGUOUS)
      [] ct.kind \in {"Placeholder", "Value", "Error"} ->
            /\ UNCHANGED <<delegateVars, nested_goals>>
            /\ evaluate_added_goals_and_make_canonical_response(Yes)
      [] ct.kind \in {"Param", "Bound", "Expr"} ->
            /\ UNCHANGED delegateVars
            /\ Fatal("unexpect const kind")

\* compute_const_evaluatable_goal; `evaluated` is what try_const_eval_resolve
\* answers for an unevaluated constant if asked: Some value, or None.
compute_const_evaluatable_goal(ct, evaluated) ==
    CASE ct.kind = "Unevaluated" ->
            /\ delegate_log' =
                  Append(delegate_log, <<"try_const_eval_resolve", ct.kind>>)
            /\ UNCHANGED <<region_obligations, type_variables, nested_goals>>
            /\ IF evaluated # None
               THEN evaluate_added_goals_and_make_canonical_response(Yes)
               ELSE evaluate_added_goals_and_make_canonical_response(AMBIGUOUS)
      [] ct.kind = "Infer" ->
            /\ UNCHANGED <<delegateVars, nested_goals>>
            /\ evaluate_added_goals_and_make_canonical_response(AMBIGUOUS)
      [] ct.kind \in {"Placeholder", "Value", "Error"} ->
            /\ UNCHANGED <<delegateVars, nested_goals>>
            /\ evaluate_added_goals_and_make_canonical_response(Yes)
      [] ct.kind \in {"Param", "Bound", "Expr"} ->
            /\ UNCHANGED delegateVars
            /\ Fatal("unexpect const kind")

\* The intrinsic type of a constant: type_of(uv.def) instantiated for an
\* unevaluated constant, the type of a value, the environment's type of a
\* placeholder.
const_ty(ct) ==
    CASE ct.kind = "Unevaluated" -> "usize"
      [] ct.kind = "Value" -> "usize"
      [] ct.kind = "Placeholder" -> "usize"

\* EvalCtxt::eq followed by the builder: NoSolution at once when the
\* unification fails, else its goals are staged and the builder is called.
eq_then_respond(ct_ty, ty, unified) ==
    /\ delegate_log' = Append(delegate_log, <<"eq", ct_ty, ty>>)
    /\ UNCHANGED <<region_obligations, type_variables>>
    /\ IF unified.tag = "Err"
       THEN /\ result' = NoSolution
            /\ spc' = "done"
            /\ UNCHANGED <<base_certainty, fixpointVars>>
       ELSE /\ add_goals(unified.value)
            /\ evaluate_added_goals_and_make_canonical_response(Yes)

\* A handler without the special case for effect variables.
compute_const_arg_has_type_goal_EffectVarStalls(ct, ty, unified) ==
    CASE ct.kind = "Infer" ->
            /\ UNCHANGED <<delegateVars, nested_goals>>
            /\ evaluate_added_goals_and_make_canonical_response(AMBIGUOUS)
      [] ct.kind = "Error" ->
            /\ UNCHANGED <<delegateVars, nested_goals>>
            /\ evaluate_added_goals_and_make_canonical_response(Yes)
      [] ct.kind = "Expr" ->
            /\ UNCHANGED delegateVars
            /\ Fatal("generic_const_exprs is not supported")
      [] ct.kind = "Param" ->
            /\ UNCHANGED delegateVars
            /\ Fatal("Param should have been canonicalized")
      [] ct.kind = "Bound" ->
            /\ UNCHANGED delegateVars
            /\ Fatal("escaping bound vars")
      [] ct.kind \in {"Unevaluated", "Value", "Placeholder"} ->
            eq_then_respond(const_ty(ct), ty, unified)

\* compute_const_arg_has_type_goal; `unified` is what the delegate's eq
\* answers for (ct_ty, ty) if asked: Err(NoSolution), or Ok with the goals the
\* relation stages.
compute_const_arg_has_type_goal(ct, ty, unified) ==
    CASE ct.kind = "Infer" /\ ct.infer = "EffectVar" ->
            /\ UNCHANGED <<delegateVars, nested_goals>>
            /\ evaluate_added_goals_and_make_canonical_response(Yes)
      [] ct.kind = "Infer" /\ ct.infer # "EffectVar" ->
            /\ UNCHANGED <<delegateVars, nested_goals>>
            /\ evaluate_added_goals_and_make_canonical_response(AMBIGUOUS)
      [] ct.kind = "Error" ->
            /\ UNCHANGED <<delegateVars, nested_goals>>
            /\ evaluate_added_goals_and_make_canonical_response(Yes)
      [] ct.kind = "Expr" ->
            /\ UNCHANGED delegateVars
            /\ Fatal("generic_const_exprs is not supported")
      [] ct.kind = "Param" ->
            /\ UNCHANGED delegateVars
            /\ Fatal("Param should have been canonicalized")
      [] ct.kind = "Bound" ->
            /\ UNCHANGED delegateVars
            /\ Fatal("escaping bound vars")
      [] ct.kind \in {"Unevaluated", "Value", "Placeholder"} ->
            eq_then_respond(const_ty(ct), ty, unified)

\* The dispatcher hands a ConstEvaluatable goal to its handler.
ConstEvaluatable ==
    /\ spc = "start"
    /\ \E ct \in Const, evaluated \in {None, Some("value")} :
        /\ goal' = [kind |-> "ConstEvaluatable", ct |-> ct,
                    evaluated |-> evaluated, staged |-> <<>>]
        /\ compute_const_evaluatable_goal(ct, evaluated)
    /\ UNCHANGED <<resolverVars, latticeVars>>

\* The dispatcher hands a ConstArgHasType goal to its handler.
ConstArgHasType ==
    /\ spc = "start"
    /\ \E ct \in Const, ty \in ConstTypes, unified \in Relations :
        /\ goal' = [kind |-> "ConstArgHasType", ct |-> ct, ty |-> ty,
                    unified |-> unified,
                    staged |-> IF /\ ct.kind \in {"Unevaluated", "Value", "Placeholder"}
                                  /\ unified.tag = "Ok"
                               THEN unified.value ELSE <<>>]
        /\ compute_const_arg_has_type_goal(ct, ty, unified)
    /\ UNCHANGED <<resolverVars, latticeVars>>

InitSolve ==
    /\ InitResolver0
    /\ InitLattice0
    /\ InitSolver0

NextSolve ==
    \/ TypeOutlives
    \/ RegionOutlives
    \/ Subtype
    \/ Coerce
    \/ ObjectSafe
    \/ WellFormed
    \/ ConstEvaluatable
    \/ ConstArgHasType
    \/ OtherGoal
    \/ FixpointStep
    \/ FixpointExhausted
    \/ MakeCanonicalResponse

\* The evaluation is synchronous and single-threaded: a started evaluation
\* keeps taking its next step.
SpecSolve == InitSolve /\ [][NextSolve]_vars /\ WF_vars(NextSolve)

\* ------------------------------------------------------ the normalizer

TyU32 == <<"ty", "u32">>

TyParam == <<"param", "T">>

TyProjection == <<"alias", "<T as Iterator>::Item">>

\* The types handed to the normalizer.
NormTypes == {TyI32, TyParam, TyProjection}

\* ty.kind() is ty::Alias(..).
is_alias(ty) == ty[1] = "alias"

\* The variable next_ty_infer returns.
next_ty_infer == <<"infer", Len(type_variables) + 1>>

\* resolve_vars_if_possible on a type: the binding of a bound inference
\* variable, else the type itself.
resolve_vars_if_possible(ty) ==
    IF ty[1] = "infer" /\ type_variables[ty[2]] # None
    THEN type_variables[ty[2]].value
    ELSE ty

\* A caller of the normalizer (candidate assembly, a goal handler) has staged
\* goals of its own in the evaluation context.
CallerStages ==
    /\ spc = "start"
    /\ \E gs \in NestedGoals :
        /\ goal' = [kind |-> "Caller", staged |-> gs]
        /\ add_goals(gs)
    /\ spc' = "caller"
    /\ UNCHANGED <<base_certainty, step, goals_certainty, last_certs, result,
                   delegateVars>>
    /\ UNCHANGED <<resolverVars, latticeVars>>

\* A normalizer that allocates its variable before looking at the type.
structurally_normalize_ty_EagerVar(ty, script, normalizes_to) ==
    IF is_alias(ty)
    THEN /\ type_variables' = Append(type_variables, None)
         /\ nested_goals' =
               Append(nested_goals,
                      AliasRelate(ty, next_ty_infer, "Equate", script,
                                  normalizes_to))
         /\ step' = 0
         /\ goals_certainty' = NotRun
         /\ last_certs' = <<>>
         /\ result' = NotRun
         /\ spc' = "fixpoint"
         /\ UNCHANGED <<base_certainty, delegate_log, region_obligations>>
    ELSE /\ type_variables' = Append(type_variables, None)
         /\ result' = Ok(ty)
         /\ spc' = "done"
         /\ UNCHANGED <<base_certainty, fixpointVars, delegate_log,
                        region_obligations>>

\* structurally_normalize_ty up to its call of try_evaluate_added_goals, or
\* to its return for a type that is no alias. `script` and `normalizes_to`
\* say how the AliasRelate goal will evaluate.
structurally_normalize_ty(ty, script, normalizes_to) ==
    IF is_alias(ty)
    THEN /\ type_variables' = Append(type_variables, None)
         /\ nested_goals' =
               Append(nested_goals,
                      AliasRelate(ty, next_ty_infer, "Equate", script,
                                  normalizes_to))
         /\ step' = 0
         /\ goals_certainty' = NotRun
         /\ last_certs' = <<>>
         /\ result' = NotRun
         /\ spc' = "fixpoint"
         /\ UNCHANGED <<base_certainty, delegate_log, region_obligations>>
    ELSE /\ result' = Ok(ty)
         /\ spc' = "done"
         /\ UNCHANGED <<base_certainty, fixpointVars, delegateVars>>

\* A normalizer that returns its variable as allocated.
structurally_normalize_ty_result_Unresolved(normalized_ty) ==
    IF goals_certainty = NoSolution THEN NoSolution
    ELSE Ok(normalized_ty)

\* What structurally_normalize_ty returns once try_evaluate_added_goals has.
structurally_normalize_ty_result(normalized_ty) ==
    IF goals_certainty = NoSolution THEN NoSolution
    ELSE Ok(resolve_vars_if_possible(normalized_ty))

\* The ways an AliasRelate goal may normalize an alias: to a type, or to the
\* alias itself when it is rigid.
NormalForms(ty) == {TyU32, ty}

\* The local normalized_ty of a call: the fresh variable, for an alias only.
fresh_for(ty) == IF is_alias(ty) THEN next_ty_infer ELSE None

\* A caller normalizes a type.
StructurallyNormalizeTy ==
    /\ spc = "caller"
    /\ \E ty \in NormTypes, script \in NestedGoal :
       \E normalizes_to \in NormalForms(ty) :
        /\ goal' = [kind |-> "StructurallyNormalizeTy", ty |-> ty,
                    normalized_ty |-> fresh_for(ty), call |-> 1,
                    first |-> NotRun]
        /\ structurally_normalize_ty(ty, script, normalizes_to)
    /\ UNCHANGED <<resolverVars, latticeVars>>

\* The caller normalizes the type the normalizer returned.
StructurallyNormalizeTyAgain ==
    /\ spc = "done"
    /\ goal.kind = "StructurallyNormalizeTy"
    /\ goal.call = 1
    /\ result.tag = "Ok"
    /\ \E script \in NestedGoal :
       \E normalizes_to \in NormalForms(result.value) :
        /\ goal' = [kind |-> "StructurallyNormalizeTy", ty |-> result.value,
                    normalized_ty |-> fresh_for(result.value), call |-> 2,
                    first |-> [ty |-> goal.ty, out |-> result]]
        /\ structurally_normalize_ty(result.value, script, normalizes_to)
    /\ UNCHANGED <<resolverVars, latticeVars>>

\* try_evaluate_added_goals has returned to the normalizer.
StructurallyNormalizeTyReturn ==
    /\ spc = "respond"
    /\ goal.kind = "StructurallyNormalizeTy"
    /\ result' = structurally_normalize_ty_result(goal.normalized_ty)
    /\ spc' = "done"
    /\ UNCHANGED <<goal, base_certainty, fixpointVars, delegateVars>>
    /\ UNCHANGED <<resolverVars, latticeVars>>

NextNormalize ==
    \/ CallerStages
    \/ StructurallyNormalizeTy
    \/ StructurallyNormalizeTyAgain
    \/ FixpointStep
    \/ FixpointExhausted
    \/ StructurallyNormalizeTyReturn

SpecNormalize == InitSolve /\ [][NextNormalize]_vars

\* ------------------------------------------- properties of the resolver

\* "Proved with nothing left to do": Yes, identity var values, no constraints,
\* stated on the fields of the response.
IsTriviallyTrue(r) ==
    /\ r.value.certainty = Yes
    /\ r.value.var_values = make_identity(r.variables)
    /\ r.value.external_constraints.region_constraints = {}
    /\ r.value.external_constraints.opaque_types = {}

\* The positions of the candidates that are trivially true.
TrivialAt == {i \in 1..Len(responses) : IsTriviallyTrue(responses[i])}

\* C1 (merge dominance): whenever some candidate of a non-empty list is
\* (Yes, identity, no region and no opaque-type constraints), the merge
\* returns Some of that candidate, the first such one in the list, whatever
\* the other candidates are and wherever it sits.
C1_MergeDominance ==
    (mpc = "merged" /\ TrivialAt # {}) =>
        /\ merge_out.tag = "Some"
        /\ IsTriviallyTrue(merge_out.value)
        /\ \A i \in TrivialAt : merge_out.value = responses[i]

\* Scenario D and its mirror: the trivially true candidate sits after a
\* candidate that differs from it, and the merge returned it.
C1_Witness ==
    /\ mpc = "merged"
    /\ Len(responses) = MaxResponses
    /\ TrivialAt = {Len(responses)}
    /\ responses[1].value.certainty = Yes
    /\ responses[1].value.var_values[1] = TyI32
    /\ merge_out = Some(responses[Len(responses)])

\* C2 (merge determinism): when every candidate equals the first, the merge
\* returns the first candidate unchanged, whatever that response is.
C2_MergeDeterminism ==
    (/\ mpc = "merged"
     /\ responses # <<>>
     /\ \A i \in 1..Len(responses) : responses[i] = responses[1]) =>
        merge_out = Some(responses[1])

\* Three copies of an ambiguous response with a non-identity substitution and
\* non-empty constraints, merged to that response.
C2_Witness ==
    /\ mpc = "merged"
    /\ Len(responses) = 3
    /\ responses[2] = responses[1]
    /\ responses[3] = responses[1]
    /\ responses[1].value.certainty = Maybe(Overflow(TRUE))
    /\ responses[1].value.var_values[1] = TyI32
    /\ responses[1].value.external_constraints.region_constraints # {}
    /\ responses[1].value.external_constraints.opaque_types # {}
    /\ merge_out = Some(responses[1])

\* C3 (flounder emptiness): flounder of the empty list is NoSolution; flounder
\* of a non-empty list is Ok with a Maybe certainty, never Yes and never the
\* fatal error, whether or not a merge was tried first.
C3_FlounderEmptiness ==
    mpc = "floundered" =>
        /\ responses = <<>> => flounder_out = NoSolution
        /\ responses # <<>> =>
            /\ flounder_out.tag = "Ok"
            /\ flounder_out.value.value.certainty.tag = "Maybe"

\* Candidates that are all Yes but disagree, so the merge found no winner, and
\* the flounder that followed answered Maybe.
C3_Witness ==
    /\ mpc = "floundered"
    /\ Len(responses) >= 2
    /\ \A i \in 1..Len(responses) : responses[i].value.certainty = Yes
    /\ merge_out = None
    /\ flounder_out.tag = "Ok"
    /\ flounder_out.value.value.certainty = AMBIGUOUS

\* The lattice join of the certainties of all candidates of a non-empty list.
RECURSIVE JoinOfCandidates(_)
JoinOfCandidates(rs) ==
    IF Len(rs) = 1 THEN rs[1].value.certainty
    ELSE unify_with(rs[1].value.certainty, JoinOfCandidates(Tail(rs)))

\* The response flounder built has identity var values and no constraints.
FlounderCarriesNoConstraints ==
    /\ flounder_out.tag = "Ok"
    /\ is_identity(flounder_out.value.value.var_values)
    /\ flounder_out.value.value.external_constraints.region_constraints = {}
    /\ flounder_out.value.value.external_constraints.opaque_types = {}

\* C4 as stated, where the flounder follows a merge that found no winner: for
\* a non-empty list the flounder response carries the join of every
\* candidate's certainty, with identity var values and no constraints.
C4_FlounderJoinOfCandidates ==
    (mpc = "floundered" /\ merge_out = None /\ responses # <<>>) =>
        /\ FlounderCarriesNoConstraints
        /\ flounder_out.value.value.certainty = JoinOfCandidates(responses)

\* C4 (flounder result), amended: for a non-empty list the flounder response
\* carries the join of Certainty::AMBIGUOUS with every candidate's certainty
\* (so Maybe(Ambiguity) when all candidates are Yes), with identity var
\* values, no region constraints and no opaque-type constraints.
C4_FlounderResult ==
    (mpc = "floundered" /\ responses # <<>>) =>
        /\ FlounderCarriesNoConstraints
        /\ flounder_out.value.value.certainty =
               unify_with(AMBIGUOUS, JoinOfCandidates(responses))

\* A flounder over an overflowing and a plainly ambiguous candidate, both with
\* constraints: the response carries the overflow cause and no constraints.
C4_Witness ==
    /\ mpc = "floundered"
    /\ Len(responses) = 2
    /\ responses[1].value.certainty = Maybe(Overflow(FALSE))
    /\ responses[2].value.certainty = AMBIGUOUS
    /\ responses[1].value.external_constraints.region_constraints # {}
    /\ responses[2].value.var_values[1] = TyI32
    /\ flounder_out =
           Ok(response_no_constraints_raw(0, variables, Maybe(Overflow(FALSE))))

\* C5 (lattice laws): the join is commutative and associative, join(Yes, Yes)
\* is Yes and join(Yes, Maybe(c)) is Maybe(c) for every cause c.
C5_LatticeLaws ==
    joins.tag = "Run" =>
        /\ joins.xy = joins.yx
        /\ joins.x_yz = joins.xy_z
        /\ (certs[1] = Yes /\ certs[2] = Yes) => joins.xy = Yes
        /\ (certs[1] = Yes /\ certs[2].tag = "Maybe") => joins.xy = certs[2]

\* Three distinct ambiguous certainties joined both ways round.
C5_Witness ==
    /\ joins.tag = "Run"
    /\ certs = <<Maybe(Overflow(FALSE)), AMBIGUOUS, Maybe(Overflow(TRUE))>>
    /\ joins.xy = Maybe(Overflow(FALSE))
    /\ joins.x_yz = Maybe(Overflow(TRUE))

\* ----------------------------------------------- properties of the solver

\* The builder ran for the goal and the evaluation is over.
BuilderDone == spc = "done" /\ base_certainty # NotRun

HasFails(gs) == \E i \in 1..Len(gs) : gs[i].kind = "Fails"

HasRegenerates(gs) == \E i \in 1..Len(gs) : gs[i].kind = "Regenerates"

OnlyDecreasing(gs) == \A i \in 1..Len(gs) : gs[i].kind = "Decreasing"

\* The most rounds of progress any goal of a list of Decreasing goals needs.
MaxRounds(gs) ==
    IF gs = <<>> THEN 0
    ELSE CHOOSE n \in {gs[i].n : i \in 1..Len(gs)} :
            \A i \in 1..Len(gs) : gs[i].n <= n

\* What C6 says of a state: no more than 8 iterations are ever run; goals
\* whose need for progress strictly decreases and runs out within the limit
\* finish after as many iterations as the longest of them needs, with the
\* base certainty; a goal that regenerates itself on every iteration (no goal
\* beside it being refuted) stops after exactly 8 iterations with a response
\* that is Maybe(Overflow), not NoSolution and not a fatal error.
C6_Bounded ==
    /\ step <= 8
    /\ (BuilderDone /\ OnlyDecreasing(goal.staged)) =>
          /\ step <= 8
          /\ MaxRounds(goal.staged) < 8 =>
                /\ step = MaxRounds(goal.staged) + 1
                /\ result.tag = "Ok"
                /\ result.value.value.certainty = base_certainty
    /\ (BuilderDone /\ HasRegenerates(goal.staged) /\ ~HasFails(goal.staged)) =>
          /\ step = 8
          /\ result.tag = "Ok"
          /\ result.value.value.certainty.tag = "Maybe"
          /\ result.value.value.certainty.cause.kind = "Overflow"

\* The steps an evaluation has left at most: a variant of the evaluation.
Rank ==
    CASE spc = "start" -> 8 + 4
      [] spc = "fixpoint" -> 8 + 2 - step
      [] spc = "respond" -> 1
      [] spc = "done" -> 0

\* An evaluation that is not over can take a step.
C6_NotStuck == spc # "done" => ENABLED NextSolve

\* C6 (fixpoint termination): draining the worklist always terminates: every
\* step of an evaluation strictly decreases Rank, which stays a natural
\* number, and an evaluation that is not over can always take a step; on the
\* way the bounds of C6_Bounded hold: never more than 8 iterations,
\* decreasing goals finish within them, a self-regenerating goal stops at
\* exactly 8 with Maybe(Overflow).
C6_FixpointTermination ==
    /\ [](C6_Bounded /\ C6_NotStuck /\ Rank \in Nat)
    /\ [][Rank' < Rank]_vars

\* A goal that regenerates itself, staged beside a goal that needs progress,
\* stopped after 8 iterations with an overflow response.
C6_Witness ==
    /\ BuilderDone
    /\ goal.staged = <<Regenerates, Decreasing(3)>>
    /\ base_certainty = Yes
    /\ step = 8
    /\ result.tag = "Ok"
    /\ result.value.value.certainty = Maybe(Overflow(FALSE))

\* The join of a base certainty with a sequence of certainties.
RECURSIVE JoinWith(_, _)
JoinWith(c, cs) ==
    IF cs = <<>> THEN c ELSE JoinWith(unify_with(c, Head(cs)), Tail(cs))

\* All 8 iterations of the fixpoint made progress and left goals pending.
Exhausts(gs) ==
    \E i \in 1..Len(gs) :
        \/ gs[i].kind = "Regenerates"
        \/ gs[i].kind = "Decreasing" /\ gs[i].n >= 8

\* C7 as stated: a refuted nested goal makes the result NoSolution whatever
\* the base certainty; otherwise the result's certainty is the join of the
\* base certainty and every nested goal's certainty (the goals still pending
\* evaluated to last_certs, all others to Yes).
C7_JoinOfNestedGoals ==
    BuilderDone =>
        /\ HasFails(goal.staged) => result = NoSolution
        /\ ~HasFails(goal.staged) =>
              /\ result.tag = "Ok"
              /\ result.value.value.certainty = JoinWith(base_certainty, last_certs)

\* C7 (nested-goal failure short-circuits), amended: a refuted nested goal
\* makes the result NoSolution whatever the base certainty; otherwise the
\* result's certainty is the join of the base certainty and every nested
\* goal's certainty when the fixpoint settles within the 8 iterations, and the
\* join of the base certainty and Maybe(Overflow) when all 8 iterations made
\* progress; it is Yes only when the base certainty and all nested goals are
\* Yes.
C7_NestedGoalFailure ==
    BuilderDone =>
        /\ HasFails(goal.staged) => result = NoSolution
        /\ ~HasFails(goal.staged) =>
              /\ result.tag = "Ok"
              /\ result.value.value.certainty =
                    IF Exhausts(goal.staged)
                    THEN unify_with(base_certainty, Maybe(Overflow(FALSE)))
                    ELSE JoinWith(base_certainty, last_certs)
              /\ result.value.value.certainty = Yes =>
                    /\ base_certainty = Yes
                    /\ \A i \in 1..Len(last_certs) : last_certs[i] = Yes
                    /\ OnlyDecreasing(goal.staged)

\* A well-formedness goal whose second derived goal is refuted: NoSolution,
\* although the base certainty was Yes and the first derived goal holds.
C7_Witness ==
    /\ BuilderDone
    /\ goal.kind = "WellFormed"
    /\ goal.staged = <<Decreasing(0), Fails>>
    /\ base_certainty = Yes
    /\ result = NoSolution

BothTyVars == is_ty_var(goal.a) /\ is_ty_var(goal.b)

\* What C8 says when both sides are unresolved variables: the answer is
\* ambiguous, the delegate is not asked and nothing is recorded.
C8_BothVars ==
    /\ result.tag = "Ok"
    /\ result.value.value.certainty = AMBIGUOUS
    /\ delegate_log = <<>>
    /\ region_obligations = {}
    /\ result.value.value.external_constraints = ExternalConstraintsData_default

\* C8 as stated: with both sides unresolved variables the result is ambiguous
\* and the delegate is not asked; otherwise the delegate's sub is asked once,
\* the result is NoSolution exactly when it reports inconsistency, and Yes
\* joined with the nested goals when it succeeds.
C8_SubtypeExactly ==
    (spc = "done" /\ goal.kind = "Subtype") =>
        /\ BothTyVars => C8_BothVars
        /\ ~BothTyVars =>
              /\ delegate_log = <<<<"sub", goal.a, goal.b>>>>
              /\ result = NoSolution <=> goal.relation = NoSolution
              /\ result # NoSolution =>
                    /\ result.tag = "Ok"
                    /\ base_certainty = Yes

\* C8 (subtype goal), amended: with both sides unresolved variables (also the
\* same variable twice) the result is ambiguous and the delegate is not
\* asked, so nothing is recorded; otherwise the delegate's sub is asked once,
\* the result is NoSolution when it reports inconsistency (no response is
\* then built) or when a nested goal staged by the relation is refuted, and
\* otherwise Yes joined with the certainty of the nested goals, so Yes when
\* the relation stages none.
C8_SubtypeGoal ==
    (spc = "done" /\ goal.kind = "Subtype") =>
        /\ BothTyVars => C8_BothVars
        /\ ~BothTyVars =>
              /\ delegate_log = <<<<"sub", goal.a, goal.b>>>>
              /\ goal.relation = NoSolution =>
                    result = NoSolution /\ base_certainty = NotRun
              /\ result = NoSolution <=>
                    (goal.relation = NoSolution \/ HasFails(goal.staged))
              /\ result # NoSolution =>
                    /\ result.tag = "Ok"
                    /\ base_certainty = Yes
                    /\ result.value.value.certainty =
                          unify_with(Yes, goals_certainty.value)
                    /\ goal.staged = <<>> => result.value.value.certainty = Yes

\* Scenario A: Subtype(?X, ?X) answered ambiguous without asking the delegate.
C8_Witness ==
    /\ spc = "done"
    /\ goal.kind = "Subtype"
    /\ goal.a = "?X"
    /\ goal.b = "?X"
    /\ result.tag = "Ok"
    /\ result.value.value.certainty = AMBIGUOUS
    /\ delegate_log = <<>>

\* C9 (outlives goals): a TypeOutlives or RegionOutlives goal always ends Ok
\* with certainty Yes, whatever the two terms; exactly one outlives fact, the
\* goal's, was registered on the delegate, and it is in the region constraints
\* of the response.
C9_OutlivesGoals ==
    (spc = "done" /\ goal.kind \in {"TypeOutlives", "RegionOutlives"}) =>
        /\ result.tag = "Ok"
        /\ result.value.value.certainty = Yes
        /\ delegate_log =
              <<<<IF goal.kind = "TypeOutlives" THEN "register_ty_outlives"
                  ELSE "register_region_outlives", goal.a, goal.b>>>>
        /\ region_obligations = {<<goal.a, goal.b>>}
        /\ <<goal.a, goal.b>> \in
              result.value.value.external_constraints.region_constraints

\* Scenario C: TypeOutlives(T, 'static) answered Yes with the fact recorded.
C9_Witness ==
    /\ spc = "done"
    /\ goal.kind = "TypeOutlives"
    /\ goal.a = "T"
    /\ goal.b = "'static"
    /\ result.tag = "Ok"
    /\ result.value.value.certainty = Yes
    /\ result.value.value.external_constraints.region_constraints =
          {<<"T", "'static">>}

\* C10 (object-safe goal): the result is Yes exactly when the trait is object
\* safe and NoSolution otherwise, never ambiguous; on the NoSolution path no
\* response is built, no nested goal is evaluated and the delegate is
\* untouched.
C10_ObjectSafeGoal ==
    (spc = "done" /\ goal.kind = "ObjectSafe") =>
        /\ goal.trait = "Debug" =>
              /\ result.tag = "Ok"
              /\ result.value.value.certainty = Yes
        /\ goal.trait = "trait_with_generic_method" =>
              /\ result = NoSolution
              /\ base_certainty = NotRun
              /\ step = 0
              /\ goals_certainty = NotRun
              /\ nested_goals = <<>>
              /\ delegate_log = <<>>
              /\ region_obligations = {}

\* Scenario B: ObjectSafe of a trait with a generic method is NoSolution.
C10_Witness ==
    /\ spc = "done"
    /\ goal.kind = "ObjectSafe"
    /\ goal.trait = "trait_with_generic_method"
    /\ result = NoSolution
    /\ step = 0

\* The evaluation of a goal of the given kind is over.
DoneWith(kind) == spc = "done" /\ goal.kind = kind

\* The goal ended Ok with the given certainty.
EndedWith(certainty) ==
    /\ result.tag = "Ok"
    /\ result.value.value.certainty = certainty

\* C11 (const-evaluatable goal): the handler never returns NoSolution; a
\* value, placeholder or error constant gives Yes with no sub-goal staged; an
\* inference variable gives ambiguity; an unevaluated constant gives Yes when
\* the delegated evaluation succeeds and ambiguity when it does not; a
\* parameter, bound variable or const expression ends in the fatal internal
\* error and no QueryResult.
C11_ConstEvaluatableGoal ==
    DoneWith("ConstEvaluatable") =>
        /\ result # NoSolution
        /\ goal.ct.kind \in {"Value", "Placeholder", "Error"} =>
              /\ EndedWith(Yes)
              /\ nested_goals = <<>>
              /\ last_certs = <<>>
              /\ delegate_log = <<>>
        /\ goal.ct.kind = "Infer" => EndedWith(AMBIGUOUS)
        /\ goal.ct.kind = "Unevaluated" =>
              /\ goal.evaluated # None => EndedWith(Yes)
              /\ goal.evaluated = None => EndedWith(AMBIGUOUS)
        /\ goal.ct.kind \in {"Param", "Bound", "Expr"} =>
              /\ result.tag = "Bug"
              /\ base_certainty = NotRun

\* An unevaluated constant whose evaluation failed: ambiguous, not NoSolution.
C11_Witness ==
    /\ DoneWith("ConstEvaluatable")
    /\ goal.ct.kind = "Unevaluated"
    /\ goal.evaluated = None
    /\ delegate_log = <<<<"try_const_eval_resolve", "Unevaluated">>>>
    /\ EndedWith(AMBIGUOUS)

\* What C12 says of the constants nothing is unified for, and of the fatal
\* ones: an effect variable gives Yes, any other inference variable
\* ambiguity, an error constant Yes, all without asking the delegate; Param,
\* Bound and Expr end in a fatal error.
C12_WithoutUnification ==
    /\ (goal.ct.kind = "Infer" /\ goal.ct.infer = "EffectVar") =>
          EndedWith(Yes) /\ delegate_log = <<>>
    /\ (goal.ct.kind = "Infer" /\ goal.ct.infer # "EffectVar") =>
          EndedWith(AMBIGUOUS) /\ delegate_log = <<>>
    /\ goal.ct.kind = "Error" => EndedWith(Yes) /\ delegate_log = <<>>
    /\ goal.ct.kind \in {"Param", "Bound", "Expr"} =>
          /\ result.tag = "Bug"
          /\ base_certainty = NotRun
          /\ delegate_log = <<>>

Unifies == goal.ct.kind \in {"Unevaluated", "Value", "Placeholder"}

\* C12 as stated: for unevaluated, value and placeholder constants the
\* intrinsic type is unified with ty, giving NoSolution exactly when the
\* unification fails and Yes when it succeeds.
C12_UnifyExactly ==
    DoneWith("ConstArgHasType") =>
        /\ C12_WithoutUnification
        /\ Unifies =>
              /\ delegate_log = <<<<"eq", "usize", goal.ty>>>>
              /\ result = NoSolution <=> goal.unified = NoSolution
              /\ goal.unified # NoSolution => EndedWith(Yes)

\* C12 (const-has-type goal), amended: an effect variable gives Yes, any
\* other inference variable ambiguity and an error constant Yes, all without
\* unifying anything; for unevaluated, value and placeholder constants the
\* intrinsic type is unified with ty once, giving NoSolution when the
\* unification fails (no response is then built) or when a nested goal the
\* unification stages is refuted, and otherwise Yes joined with the certainty
\* of the staged goals, so Yes when it stages none; Param, Bound and Expr end
\* in a fatal error.
C12_ConstArgHasTypeGoal ==
    DoneWith("ConstArgHasType") =>
        /\ C12_WithoutUnification
        /\ Unifies =>
              /\ delegate_log = <<<<"eq", "usize", goal.ty>>>>
              /\ goal.unified = NoSolution =>
                    result = NoSolution /\ base_certainty = NotRun
              /\ result = NoSolution <=>
                    (goal.unified = NoSolution \/ HasFails(goal.staged))
              /\ result # NoSolution =>
                    /\ result.tag = "Ok"
                    /\ base_certainty = Yes
                    /\ result.value.value.certainty =
                          unify_with(Yes, goals_certainty.value)
                    /\ goal.staged = <<>> => EndedWith(Yes)

\* A value constant whose type unifies with ty, the unification staging a
\* goal that is then refuted.
C12_Witness ==
    /\ DoneWith("ConstArgHasType")
    /\ goal.ct.kind = "Value"
    /\ goal.ty = "usize"
    /\ goal.unified = Ok(<<Fails>>)
    /\ delegate_log = <<<<"eq", "usize", "usize">>>>
    /\ base_certainty = Yes
    /\ result = NoSolution

\* C13 (well-formed goal): when well_formed_goals answers None the result is
\* ambiguous and no sub-goal is staged or evaluated; when it answers
\* Some(goals), all of the goals, in order, are on the worklist when the
\* builder is entered with base certainty Yes, no response existing yet, and
\* the result is what the fixpoint over them gives joined with Yes.
C13_WellFormedGoal ==
    (spc # "start" /\ goal.kind = "WellFormed") =>
        /\ goal.wf = None =>
              /\ nested_goals = <<>>
              /\ last_certs = <<>>
              /\ base_certainty = AMBIGUOUS
              /\ spc = "done" => EndedWith(AMBIGUOUS)
        /\ goal.wf # None =>
              /\ base_certainty = Yes
              /\ (spc = "fixpoint" /\ step = 0) =>
                    nested_goals = goal.wf.value /\ result = NotRun
              /\ spc # "done" => result = NotRun
              /\ spc = "done" =>
                    /\ goals_certainty # NotRun
                    /\ goals_certainty.tag = "Err" => result = NoSolution
                    /\ goals_certainty.tag = "Ok" =>
                          EndedWith(unify_with(Yes, goals_certainty.value))

\* Two derived goals on the worklist, the builder entered, nothing evaluated.
C13_Witness ==
    /\ spc = "fixpoint"
    /\ goal.kind = "WellFormed"
    /\ goal.wf # None
    /\ Len(goal.wf.value) = 2
    /\ step = 0
    /\ nested_goals = goal.wf.value
    /\ base_certainty = Yes

\* ------------------------------------------- properties of the normalizer

\* The normalizer has just been called, in this step, on a type that is no
\* alias.
NormalizesNonAlias ==
    /\ spc \in {"caller", "done"}
    /\ spc' = "done"
    /\ goal' # goal
    /\ goal'.kind = "StructurallyNormalizeTy"
    /\ ~is_alias(goal'.ty)

\* C14 (normalization idempotence): structurally_normalize_ty on a type whose
\* head is no alias returns Ok of that type, and the call allocates no
\* inference variable, adds no goal to the worklist, evaluates no goal and
\* touches nothing else of the evaluation context; applied again to its own
\* output it returns the same output.
C14_NormalizeNonAlias ==
    /\ [](DoneWith("StructurallyNormalizeTy") =>
            /\ ~is_alias(goal.ty) => result = Ok(goal.ty)
            /\ (goal.call = 2 /\ ~is_alias(goal.first.ty)) =>
                  /\ goal.ty = goal.first.ty
                  /\ result = goal.first.out)
    /\ [][NormalizesNonAlias =>
            /\ result' = Ok(goal'.ty)
            /\ UNCHANGED <<type_variables, nested_goals, step, goals_certainty,
                           last_certs, delegate_log, region_obligations,
                           base_certainty>>]_vars

\* A parameter type normalized twice in a context with two goals pending.
C14_Witness ==
    /\ DoneWith("StructurallyNormalizeTy")
    /\ goal.call = 2
    /\ goal.first.ty = TyParam
    /\ result = Ok(TyParam)
    /\ Len(nested_goals) = 2
    /\ type_variables = <<>>
    /\ step = 0

\* The normalizer has just been called, in this step, on an alias.
NormalizesAlias ==
    /\ spc \in {"caller", "done"}
    /\ spc' = "fixpoint"
    /\ goal'.kind = "StructurallyNormalizeTy"

\* The AliasRelate goals of a worklist that relate to the given variable.
RelatedTo(goals, var) ==
    {i \in 1..Len(goals) : goals[i].kind = "AliasRelate" /\ goals[i].rhs = var}

\* C15 (normalizer alias path): on an alias the normalizer allocates exactly
\* one fresh, unbound inference variable and stages exactly one goal,
\* AliasRelate(ty, fresh variable, Equate), behind the goals already pending;
\* it returns only after the fixpoint over the pending goals has run; it
\* returns NoSolution exactly when that evaluation fails, and otherwise the
\* resolution of the fresh variable as it stands after the evaluation: the
\* type the goal bound it to when the goal held, the variable itself while
\* the goal is still pending.
C15_NormalizeAlias ==
    /\ [](/\ (spc \in {"fixpoint", "respond"}
                /\ goal.kind = "StructurallyNormalizeTy") =>
                  result = NotRun
          /\ (DoneWith("StructurallyNormalizeTy") /\ is_alias(goal.ty)) =>
                /\ step >= 1
                /\ goals_certainty # NotRun
                /\ result = NoSolution <=> goals_certainty = NoSolution
                /\ result # NoSolution =>
                      /\ result.tag = "Ok"
                      /\ result.value = resolve_vars_if_possible(goal.normalized_ty)
                      /\ IF RelatedTo(nested_goals, goal.normalized_ty) = {}
                         THEN /\ type_variables[goal.normalized_ty[2]] # None
                              /\ result.value \in NormalForms(goal.ty)
                         ELSE /\ type_variables[goal.normalized_ty[2]] = None
                              /\ result.value = goal.normalized_ty)
    /\ [][NormalizesAlias =>
            /\ is_alias(goal'.ty)
            /\ type_variables' = Append(type_variables, None)
            /\ goal'.normalized_ty = <<"infer", Len(type_variables')>>
            /\ Len(nested_goals') = Len(nested_goals) + 1
            /\ SubSeq(nested_goals', 1, Len(nested_goals)) = nested_goals
            /\ LET g == nested_goals'[Len(nested_goals')] IN
               /\ g.kind = "AliasRelate"
               /\ g.lhs = goal'.ty
               /\ g.rhs = goal'.normalized_ty
               /\ g.direction = "Equate"
            /\ step' = 0]_vars

\* An alias normalized behind a pending goal: the AliasRelate goal held on a
\* later pass and the variable's binding is what is returned.
C15_Witness ==
    /\ DoneWith("StructurallyNormalizeTy")
    /\ goal.ty = TyProjection
    /\ goal.call = 1
    /\ goal.normalized_ty = <<"infer", 1>>
    /\ type_variables = <<Some(TyU32)>>
    /\ result = Ok(TyU32)
    /\ step >= 3
    /\ Len(nested_goals) = 1

\* ------------------------------------------- the order of the candidates

\* C16 (merge is order-independent): whatever the merge returned for the
\* candidates, it returns the same for every permutation of them: the same
\* Some(response), or None again.
C16_MergeOrderIndependent ==
    [][(mpc = "merged" /\ mpc' = "remerged") => merge_out' = merge_out]_vars

\* Three distinct candidates merged in two orders, the only trivially true
\* one now last and a constrained Yes first: it is the outcome all the same.
C16_Witness ==
    /\ mpc = "remerged"
    /\ Len(responses) = 3
    /\ responses[1] # responses[2]
    /\ responses[1].value.certainty = Yes
    /\ ~IsTriviallyTrue(responses[1])
    /\ ~IsTriviallyTrue(responses[2])
    /\ IsTriviallyTrue(responses[3])
    /\ merge_out = Some(responses[3])

====
